---------------------------- MODULE Spec2Model ----------------------------
(***************************************************************************)
(* Endee RAG Assistant: the React front end (DocumentUpload,               *)
(* QuestionAnswer, App), its axios service layer (api.ts), and the         *)
(* back-end chunker / ingest pipeline.                                     *)
(*                                                                         *)
(* Every React event handler runs to completion before the next event, so  *)
(* a handler is one action.  An awaited HTTP call splits a handler in two: *)
(* the part before the await (which issues the request) and the            *)
(* continuation, which runs once the server's reply has arrived.  The      *)
(* reply in flight is part of the state (uploadNet, askNet).               *)
(***************************************************************************)
EXTENDS Integers, Sequences, FiniteSets, TLC

(***************************************************************************)
(* Bounds of the model.                                                    *)
(***************************************************************************)
\* POST /upload and POST /ask requests issued in one run, together.
MaxRequests == 2
\* Chunker inputs: the longest text, the largest chunk_size (and overlap), and
\* the widest boundary lookback tried.
MaxTextLen == 4
MaxChunkSize == 3
MaxLookback == 2
\* ingest() calls in one run.
MaxIngests == 3

(***************************************************************************)
(* JavaScript values.  An optional value (a possibly-undefined field) is a *)
(* tuple: << >> is undefined, <<v>> is the value v.                        *)
(***************************************************************************)
Undefined == << >>
Some(v) == <<v>>

\* JavaScript truthiness of an optional string: undefined and "" are falsy.
TruthyStr(o) == o # Undefined /\ o[1] # ""

\* JavaScript truthiness of an optional array: every array, the empty one
\* included, is truthy; only undefined is falsy.
TruthyArr(o) == o # Undefined

\* a || d for an optional string a and a string d.
OrDefault(o, d) == IF TruthyStr(o) THEN o[1] ELSE d

(***************************************************************************)
(* Text typed into the question box is a sequence of characters, so that   *)
(* String.prototype.trim is computed rather than assumed.                  *)
(***************************************************************************)
IsSpace(c) == c = " "

RECURSIVE TrimStart(_)
TrimStart(s) ==
  IF s = << >> THEN << >>
  ELSE IF IsSpace(Head(s)) THEN TrimStart(Tail(s)) ELSE s

RECURSIVE TrimEnd(_)
TrimEnd(s) ==
  IF s = << >> THEN << >>
  ELSE IF IsSpace(s[Len(s)]) THEN TrimEnd(SubSeq(s, 1, Len(s) - 1)) ELSE s

Trim(s) == TrimEnd(TrimStart(s))

\* !inputValue.trim() : the trimmed text is the empty string.
BlankInput(s) == Trim(s) = << >>

\* What a user can have in the question box.
Inputs == { << >>, <<" ">>, <<"q">>, <<" ", "q">> }

(***************************************************************************)
(* Files the user can pick or drop: File.type is the browser's MIME type,  *)
(* "" when the browser knows none.                                         *)
(***************************************************************************)
NoFile == [name |-> "", type |-> "none"]

Files ==
  { [name |-> "a.pdf", type |-> "application/pdf"],
    [name |-> "b.txt", type |-> "text/plain"],
    [name |-> "c.png", type |-> "image/png"],
    [name |-> "d",     type |-> ""] }

validTypes == {"application/pdf", "text/plain"}

(***************************************************************************)
(* What an HTTP call can come back with (axios):                           *)
(*   ok     a 2xx reply, with its body;                                    *)
(*   axios  an AxiosError: no reply at all (network error, response is     *)
(*          undefined) or a non-2xx reply whose body may hold "error";     *)
(*   other  anything else thrown (not an AxiosError).                      *)
(***************************************************************************)
NoResponse == [hasResponse |-> FALSE, error |-> Undefined]

AxiosFailures ==
  { [kind |-> "axios", response |-> NoResponse] }
  \cup { [kind |-> "axios", response |-> [hasResponse |-> TRUE, error |-> e]] :
           e \in {Undefined, Some(""), Some("server says no")} }

OtherFailure == [kind |-> "other"]

HttpFailures == AxiosFailures \cup {OtherFailure}

\* Bodies of a 2xx reply of POST /upload for file f: UploadResponse.
UploadBodies(f) ==
  { [message |-> m, filename |-> n] :
      m \in {Undefined, Some("stored")}, n \in {f.name, "renamed"} }

\* Bodies of a 2xx reply of POST /ask: AskResponse.  sources is an optional
\* array of source texts.
AskBodies ==
  { [answer |-> "the answer", sources |-> s] :
      s \in {Undefined, Some(<< >>), Some(<<"chunk 1">>)} }

(***************************************************************************)
(* api.ts                                                                  *)
(***************************************************************************)
Returned(v) == [threw |-> FALSE, value |-> v, message |-> ""]
Threw(m) == [threw |-> TRUE, value |-> Undefined, message |-> m]

\* error.response?.data?.error ?? fallback: an empty 'error' is kept.
AxiosMessage_Nullish(http, fallback) ==
  IF http.response.hasResponse /\ http.response.error # Undefined
  THEN http.response.error[1]
  ELSE fallback

\* error.response?.data?.error || fallback, for an AxiosError.
AxiosMessage(http, fallback) ==
  IF http.response.hasResponse
  THEN OrDefault(http.response.error, fallback)
  ELSE fallback

uploadDocument(http) ==
  IF http.kind = "ok" THEN Returned(http.data)
  ELSE IF http.kind = "axios"
       THEN Threw(AxiosMessage(http, "Failed to upload document"))
       ELSE Threw("An unexpected error occurred during upload")

askQuestion(http) ==
  IF http.kind = "ok" THEN Returned(http.data)
  ELSE IF http.kind = "axios"
       THEN Threw(AxiosMessage(http, "Failed to get answer"))
       ELSE Threw("An unexpected error occurred while asking question")

(***************************************************************************)
(* State.                                                                  *)
(***************************************************************************)
VARIABLES
  \* DocumentUpload
  selectedFile, uploading, uploadStatus, errorMessage, successMessage,
  isDragging,
  \* QuestionAnswer
  messages, inputValue, isLoading,
  \* App
  currentSources, uploadedFiles,
  \* the network: the request / reply in flight of each endpoint
  uploadNet, askNet,
  \* history: requests issued so far; whether the last DocumentUpload event
  \* was a selection that handleFileSelect rejected; what the last
  \* QuestionAnswer event, if a submit, did ("ignored", "accepted")
  uploadSent, askSent, rejectedPick, lastSubmit,
  \* Chunker: one call of chunk(text, chunk_size, overlap); chStart is the
  \* window's offset, chChunks the chunks emitted so far, chState the call's
  \* position ("off", "called", "running", "done", "invalid")
  chText, chSize, chOverlap, chLookback, chStart, chChunks, chState,
  \* RAG Orchestrator and Vector Store: store maps a record id to its Vector
  \* Record; ingDoc, ingCfg, ingRecords are the ingest() call under way and
  \* the records it built; ingState its position ("idle", "built");
  \* lastIngest is the document and configuration of the last operation on
  \* the store if that was a completed ingest; ingests counts the calls
  store, ingDoc, ingCfg, ingRecords, ingState, lastIngest, ingests

uploadVars ==
  <<selectedFile, uploading, uploadStatus, errorMessage, successMessage,
    isDragging, uploadedFiles, uploadNet, uploadSent, rejectedPick>>

askVars ==
  <<messages, inputValue, isLoading, currentSources, askNet, askSent,
    lastSubmit>>

frontVars == <<uploadVars, askVars>>

chunkerVars == <<chText, chSize, chOverlap, chLookback, chStart, chChunks, chState>>

ingestVars == <<store, ingDoc, ingCfg, ingRecords, ingState, lastIngest, ingests>>

backVars == <<chunkerVars, ingestVars>>

vars == <<frontVars, backVars>>

NetIdle == [state |-> "idle"]

FrontInit ==
  /\ selectedFile = NoFile
  /\ uploading = FALSE
  /\ uploadStatus = "idle"
  /\ errorMessage = ""
  /\ successMessage = ""
  /\ isDragging = FALSE
  /\ messages = << >>
  /\ inputValue = << >>
  /\ isLoading = FALSE
  /\ currentSources = << >>
  /\ uploadedFiles = << >>
  /\ uploadNet = NetIdle
  /\ askNet = NetIdle
  /\ uploadSent = 0
  /\ askSent = 0
  /\ rejectedPick = FALSE
  /\ lastSubmit = "none"

\* No chunk() call is running.
ChunkerOff ==
  /\ chText = << >>
  /\ chSize = 0
  /\ chOverlap = 0
  /\ chLookback = 0
  /\ chStart = 0
  /\ chChunks = << >>
  /\ chState = "off"

NoDoc == [id |-> "", text |-> << >>]
NoCfg == [size |-> 0, overlap |-> 0, lookback |-> 0]
NoIngest == <<NoDoc, NoCfg>>

\* An empty vector store and no ingest() call under way.
IngestOff ==
  /\ store = << >>
  /\ ingDoc = NoDoc
  /\ ingCfg = NoCfg
  /\ ingRecords = << >>
  /\ ingState = "idle"
  /\ lastIngest = NoIngest
  /\ ingests = 0

Init == FrontInit /\ ChunkerOff /\ IngestOff

(***************************************************************************)
(* App                                                                     *)
(***************************************************************************)
\* setUploadedFiles([filename]): the earlier entries are lost.
handleUploadSuccess_Replace(prev, filename) == <<filename>>

\* uploadedFiles after handleUploadSuccess(filename)
handleUploadSuccess(prev, filename) == Append(prev, filename)

\* currentSources after handleSourcesUpdate(sources)
handleSourcesUpdate(prev, sources) == sources

\* {currentSources.length > 0 && <SourcesPanel .../>}
SourcesPanelRendered == Len(currentSources) > 0

\* SourcesPanel lists one SourceItem per element of its sources prop, in order.
SourcesPanel(sources) == sources

\* The sources on screen: those of the panel when App renders it, else none.
SourcesShown == IF SourcesPanelRendered THEN SourcesPanel(currentSources) ELSE << >>

(***************************************************************************)
(* DocumentUpload                                                          *)
(***************************************************************************)
\* The drop zone and the file input take events only while no upload runs
\* (pointer-events-none on the zone, disabled on the input).
DropZoneEnabled == ~uploading

\* {selectedFile && uploadStatus === 'idle' && ...}: the file row with its
\* Remove button, and the Upload button.
FileRowRendered == selectedFile # NoFile /\ uploadStatus = "idle"

\* The Upload button rendered whenever a file is selected, whatever
\* uploadStatus is.
UploadButtonEnabled_NoStatusGuard == selectedFile # NoFile /\ ~uploading

UploadButtonEnabled == FileRowRendered /\ ~uploading

\* handleFileSelect without its type check.
handleFileSelect_NoTypeCheck(file) ==
  /\ selectedFile' = file
  /\ uploadStatus' = "idle"
  /\ errorMessage' = ""
  /\ rejectedPick' = FALSE

handleFileSelect(file) ==
  IF file.type \notin validTypes
  THEN /\ errorMessage' = "Please upload a PDF or TXT file"
       /\ uploadStatus' = "error"
       /\ UNCHANGED selectedFile
       /\ rejectedPick' = TRUE
  ELSE /\ selectedFile' = file
       /\ uploadStatus' = "idle"
       /\ errorMessage' = ""
       /\ rejectedPick' = FALSE

\* The file input's onChange.
handleFileChange ==
  /\ DropZoneEnabled
  /\ \E file \in Files : handleFileSelect(file)
  /\ UNCHANGED <<uploading, successMessage, isDragging, uploadedFiles,
                 uploadNet, uploadSent>>
  /\ UNCHANGED <<askVars, backVars>>

handleDragOver ==
  /\ DropZoneEnabled
  /\ isDragging' = TRUE
  /\ UNCHANGED <<selectedFile, uploading, uploadStatus, errorMessage,
                 successMessage, uploadedFiles, uploadNet, uploadSent>>
  /\ rejectedPick' = FALSE
  /\ UNCHANGED <<askVars, backVars>>

handleDragLeave ==
  /\ DropZoneEnabled
  /\ isDragging' = FALSE
  /\ UNCHANGED <<selectedFile, uploading, uploadStatus, errorMessage,
                 successMessage, uploadedFiles, uploadNet, uploadSent>>
  /\ rejectedPick' = FALSE
  /\ UNCHANGED <<askVars, backVars>>

handleDrop ==
  /\ DropZoneEnabled
  /\ isDragging' = FALSE
  /\ \E file \in Files : handleFileSelect(file)
  /\ UNCHANGED <<uploading, successMessage, uploadedFiles, uploadNet,
                 uploadSent>>
  /\ UNCHANGED <<askVars, backVars>>

\* The Remove button: onClick={() => setSelectedFile(null)}.  It is not
\* disabled while an upload runs.
RemoveFile ==
  /\ FileRowRendered
  /\ selectedFile' = NoFile
  /\ UNCHANGED <<uploading, uploadStatus, errorMessage, successMessage,
                 isDragging, uploadedFiles, uploadNet, uploadSent>>
  /\ rejectedPick' = FALSE
  /\ UNCHANGED <<askVars, backVars>>

\* handleUpload up to its await: a click on the Upload button.
handleUpload ==
  /\ UploadButtonEnabled
  /\ uploadSent + askSent < MaxRequests
  /\ IF selectedFile = NoFile
     THEN UNCHANGED <<uploading, uploadStatus, errorMessage, uploadNet,
                      uploadSent>>
     ELSE /\ uploading' = TRUE
          /\ uploadStatus' = "idle"
          /\ errorMessage' = ""
          /\ uploadNet' = [state |-> "pending", file |-> selectedFile]
          /\ uploadSent' = uploadSent + 1
  /\ UNCHANGED <<selectedFile, successMessage, isDragging, uploadedFiles>>
  /\ rejectedPick' = FALSE
  /\ UNCHANGED <<askVars, backVars>>

\* api.post('/upload') settles and uploadDocument's try / catch turns it into
\* the value returned or the Error thrown to handleUpload.
UploadReply ==
  /\ uploadNet.state = "pending"
  /\ \E http \in { [kind |-> "ok", data |-> b] : b \in UploadBodies(uploadNet.file) }
                 \cup HttpFailures :
       uploadNet' = [state |-> "settled", file |-> uploadNet.file, http |-> http,
                     result |-> uploadDocument(http)]
  /\ UNCHANGED <<selectedFile, uploading, uploadStatus, errorMessage,
                 successMessage, isDragging, uploadedFiles, uploadSent>>
  /\ rejectedPick' = FALSE
  /\ UNCHANGED <<askVars, backVars>>

\* handleUpload's continuation with setUploading(false) at the end of the try
\* block instead of in a finally.
handleUploadSettled_NoFinally ==
  /\ uploadNet.state = "settled"
  /\ LET r == uploadNet.result IN
       IF ~r.threw
       THEN /\ successMessage' =
                 OrDefault(r.value.message, "Document uploaded successfully")
            /\ uploadStatus' = "success"
            /\ selectedFile' = NoFile
            /\ uploadedFiles' = handleUploadSuccess(uploadedFiles, r.value.filename)
            /\ uploading' = FALSE
            /\ UNCHANGED errorMessage
       ELSE /\ errorMessage' = r.message
            /\ uploadStatus' = "error"
            /\ UNCHANGED <<successMessage, selectedFile, uploadedFiles, uploading>>
  /\ uploadNet' = NetIdle
  /\ UNCHANGED <<isDragging, uploadSent>>
  /\ rejectedPick' = FALSE
  /\ UNCHANGED <<askVars, backVars>>

\* handleUpload after its await: try / catch / finally.
handleUploadSettled ==
  /\ uploadNet.state = "settled"
  /\ LET r == uploadNet.result IN
       IF ~r.threw
       THEN /\ successMessage' =
                 OrDefault(r.value.message, "Document uploaded successfully")
            /\ uploadStatus' = "success"
            /\ selectedFile' = NoFile
            /\ uploadedFiles' = handleUploadSuccess(uploadedFiles, r.value.filename)
            /\ UNCHANGED errorMessage
       ELSE /\ errorMessage' = r.message
            /\ uploadStatus' = "error"
            /\ UNCHANGED <<successMessage, selectedFile, uploadedFiles>>
  /\ uploading' = FALSE
  /\ uploadNet' = NetIdle
  /\ UNCHANGED <<isDragging, uploadSent>>
  /\ rejectedPick' = FALSE
  /\ UNCHANGED <<askVars, backVars>>

NextUpload ==
  \/ handleFileChange
  \/ handleDragOver
  \/ handleDragLeave
  \/ handleDrop
  \/ RemoveFile
  \/ handleUpload
  \/ UploadReply
  \/ handleUploadSettled


(***************************************************************************)
(* QuestionAnswer                                                          *)
(***************************************************************************)
UserMessage(text) == [type |-> "user", content |-> text, sources |-> Undefined]

\* The assistant message built without the reply's sources.
AssistantMessage_NoSources(response) ==
  [type |-> "assistant", content |-> response.answer, sources |-> Undefined]

AssistantMessage(response) ==
  [type |-> "assistant", content |-> response.answer, sources |-> response.sources]

ErrorMessage(text) == [type |-> "assistant", content |-> text, sources |-> Undefined]

\* The text input's onChange; the input is disabled while a reply is awaited.
SetInputValue ==
  /\ ~isLoading
  /\ \E text \in Inputs : inputValue' = text
  /\ lastSubmit' = "none"
  /\ UNCHANGED <<messages, isLoading, currentSources, askNet, askSent>>
  /\ UNCHANGED <<uploadVars, backVars>>

\* if (!inputValue || isLoading) return;  -- the trim forgotten.
SubmitIgnored_NoTrim == inputValue = << >> \/ isLoading

\* if (!inputValue.trim() || isLoading) return;
SubmitIgnored == BlankInput(inputValue) \/ isLoading

\* handleSubmit with setIsLoading(true) forgotten: the form stays open while
\* the reply is awaited.
handleSubmit_NoLoadingFlag ==
  /\ uploadSent + askSent < MaxRequests
  /\ IF SubmitIgnored
     THEN /\ lastSubmit' = "ignored"
          /\ UNCHANGED <<messages, inputValue, isLoading, askNet, askSent>>
     ELSE /\ lastSubmit' = "accepted"
          /\ messages' = Append(messages, UserMessage(inputValue))
          /\ inputValue' = << >>
          /\ UNCHANGED isLoading
          /\ askNet' = [state |-> "pending", question |-> inputValue]
          /\ askSent' = askSent + 1
  /\ UNCHANGED currentSources
  /\ UNCHANGED <<uploadVars, backVars>>

\* handleSubmit up to its await: a submit event of the form.
handleSubmit ==
  /\ uploadSent + askSent < MaxRequests
  /\ IF SubmitIgnored
     THEN /\ lastSubmit' = "ignored"
          /\ UNCHANGED <<messages, inputValue, isLoading, askNet, askSent>>
     ELSE /\ lastSubmit' = "accepted"
          /\ messages' = Append(messages, UserMessage(inputValue))
          /\ inputValue' = << >>
          /\ isLoading' = TRUE
          /\ askNet' = [state |-> "pending", question |-> inputValue]
          /\ askSent' = askSent + 1
  /\ UNCHANGED currentSources
  /\ UNCHANGED <<uploadVars, backVars>>

\* api.post('/ask') settles and askQuestion's try / catch turns it into the
\* value returned or the Error thrown to handleSubmit.
AskReply ==
  /\ askNet.state = "pending"
  /\ \E http \in { [kind |-> "ok", data |-> b] : b \in AskBodies } \cup HttpFailures :
       askNet' = [state |-> "settled", question |-> askNet.question, http |-> http,
                  result |-> askQuestion(http)]
  /\ lastSubmit' = "none"
  /\ UNCHANGED <<messages, inputValue, isLoading, currentSources, askSent>>
  /\ UNCHANGED <<uploadVars, backVars>>

\* The guard written as response.sources.length > 0: an empty list does not
\* reach onSourcesUpdate.
SourcesAfterAnswer_EmptyIsFalsy(prev, response) ==
  IF TruthyArr(response.sources) /\ Len(response.sources[1]) > 0
  THEN handleSourcesUpdate(prev, response.sources[1])
  ELSE prev

\* if (onSourcesUpdate && response.sources) onSourcesUpdate(response.sources)
SourcesAfterAnswer(prev, response) ==
  IF TruthyArr(response.sources)
  THEN handleSourcesUpdate(prev, response.sources[1])
  ELSE prev

\* handleSubmit's continuation with a catch block that appends nothing.
handleSubmitSettled_SilentCatch ==
  /\ askNet.state = "settled"
  /\ LET r == askNet.result IN
       IF ~r.threw
       THEN /\ messages' = Append(messages, AssistantMessage(r.value))
            /\ currentSources' = SourcesAfterAnswer(currentSources, r.value)
       ELSE UNCHANGED <<messages, currentSources>>
  /\ isLoading' = FALSE
  /\ askNet' = NetIdle
  /\ lastSubmit' = "none"
  /\ UNCHANGED <<inputValue, askSent>>
  /\ UNCHANGED <<uploadVars, backVars>>

\* handleSubmit after its await: try / catch / finally.
handleSubmitSettled ==
  /\ askNet.state = "settled"
  /\ LET r == askNet.result IN
       IF ~r.threw
       THEN /\ messages' = Append(messages, AssistantMessage(r.value))
            /\ currentSources' = SourcesAfterAnswer(currentSources, r.value)
       ELSE /\ messages' = Append(messages, ErrorMessage(r.message))
            /\ UNCHANGED currentSources
  /\ isLoading' = FALSE
  /\ askNet' = NetIdle
  /\ lastSubmit' = "none"
  /\ UNCHANGED <<inputValue, askSent>>
  /\ UNCHANGED <<uploadVars, backVars>>

NextAsk ==
  \/ SetInputValue
  \/ handleSubmit
  \/ AskReply
  \/ handleSubmitSettled

(***************************************************************************)
(* The application: both components under App.                             *)
(***************************************************************************)
Next == NextUpload \/ NextAsk

Spec == Init /\ [][Next]_vars

(***************************************************************************)
(* Chunker (back end).  chunk(text, chunk_size, overlap) walks the text in *)
(* a window of chunk_size characters that advances by chunk_size - overlap *)
(* each step; a window that does not reach the end of the text is cut at   *)
(* the nearest whitespace boundary at most `lookback` characters before    *)
(* its end, when there is one.  Offsets are 0-based and half-open: the     *)
(* chunk [start, end) holds text[start+1 .. end].                          *)
(***************************************************************************)
Min(a, b) == IF a <= b THEN a ELSE b
Max(a, b) == IF a >= b THEN a ELSE b

TextChars == {"a", " "}

Texts == UNION { [1..n -> TextChars] : n \in 0..MaxTextLen }

WhitespaceOnly(text) == \A i \in 1..Len(text) : IsSpace(text[i])

\* Preconditions: chunk_size > 0, 0 <= overlap < chunk_size.
ValidConfiguration(size, overlap) == size > 0 /\ 0 <= overlap /\ overlap < size

\* The offsets, from `end` back over at most `lookback` characters and after
\* `start`, that follow a whitespace character.
Boundaries(text, start, end, lookback) ==
  { b \in Max(start + 1, end - lookback)..end : IsSpace(text[b]) }

\* Where the window [start, start + size) is cut.
ChunkEnd(text, start, size, lookback) ==
  LET end == Min(start + size, Len(text)) IN
    IF end = Len(text) \/ Boundaries(text, start, end, lookback) = {}
    THEN end
    ELSE CHOOSE b \in Boundaries(text, start, end, lookback) :
           \A c \in Boundaries(text, start, end, lookback) : c <= b

\* The window advanced by chunk_size, the overlap forgotten.
NextStart_IgnoresOverlap(start, size, overlap) == start + size

\* The next window's offset.
NextStart(start, size, overlap) == start + (size - overlap)

\* The call: the configuration is checked, then an empty or whitespace-only
\* text gives the empty sequence.
ChunkCall ==
  /\ chState = "called"
  /\ chState' = IF ~ValidConfiguration(chSize, chOverlap) THEN "invalid"
                ELSE IF WhitespaceOnly(chText) THEN "done"
                ELSE "running"
  /\ UNCHANGED <<chText, chSize, chOverlap, chLookback, chStart, chChunks>>
  /\ UNCHANGED <<frontVars, ingestVars>>

\* One window: emit its chunk and advance.
ChunkStep ==
  /\ chState = "running"
  /\ chStart < Len(chText)
  /\ chChunks' = Append(chChunks,
                   [start |-> chStart,
                    end |-> ChunkEnd(chText, chStart, chSize, chLookback)])
  /\ chStart' = NextStart(chStart, chSize, chOverlap)
  /\ UNCHANGED <<chText, chSize, chOverlap, chLookback, chState>>
  /\ UNCHANGED <<frontVars, ingestVars>>

\* The window has left the text: return.
ChunkReturn ==
  /\ chState = "running"
  /\ chStart >= Len(chText)
  /\ chState' = "done"
  /\ UNCHANGED <<chText, chSize, chOverlap, chLookback, chStart, chChunks>>
  /\ UNCHANGED <<frontVars, ingestVars>>

InitChunker ==
  /\ FrontInit
  /\ chText \in Texts
  /\ chSize \in -1..MaxChunkSize
  /\ chOverlap \in -1..MaxChunkSize
  /\ chLookback \in 0..MaxLookback
  /\ chStart = 0
  /\ chChunks = << >>
  /\ chState = "called"
  /\ IngestOff

NextChunker == ChunkCall \/ ChunkStep \/ ChunkReturn

SpecChunker == InitChunker /\ [][NextChunker]_vars /\ WF_vars(NextChunker)

(***************************************************************************)
(* RAG Orchestrator: ingest(document, chunk_size, overlap), with the       *)
(* Embedding Encoder and the Vector Store Client it calls.                 *)
(***************************************************************************)
\* chunk(text, chunk_size, overlap) as a value: the chunks ChunkCall,
\* ChunkStep and ChunkReturn produce for a valid configuration.
RECURSIVE ChunksFrom(_, _, _, _, _)
ChunksFrom(text, start, size, overlap, lookback) ==
  IF start >= Len(text) THEN << >>
  ELSE <<[start |-> start, end |-> ChunkEnd(text, start, size, lookback)]>>
       \o ChunksFrom(text, NextStart(start, size, overlap), size, overlap, lookback)

chunk(text, size, overlap, lookback) ==
  IF WhitespaceOnly(text) THEN << >>
  ELSE ChunksFrom(text, 0, size, overlap, lookback)

ChunkText(text, c) == SubSeq(text, c.start + 1, c.end)

\* encode(text): deterministic; the vector here counts the text's letters and
\* its whitespace.
encode(text) ==
  << Cardinality({i \in 1..Len(text) : ~IsSpace(text[i])}),
     Cardinality({i \in 1..Len(text) : IsSpace(text[i])}) >>

\* encode_many: order-preserving, one vector per text.
encode_many(texts) == [k \in 1..Len(texts) |-> encode(texts[k])]

\* A record id drawn per ingest() call instead of from the document alone.
RecordId_PerCall(docId, index) == <<docId, index, ingests>>

\* id = deterministic hash of document-id + chunk-index.
RecordId(docId, index) == <<docId, index>>

\* The Vector Records ingest builds for a document.
BuildRecords(doc, cfg) ==
  LET chunks == chunk(doc.text, cfg.size, cfg.overlap, cfg.lookback)
      texts == [k \in 1..Len(chunks) |-> ChunkText(doc.text, chunks[k])]
      vectors == encode_many(texts)
  IN  [k \in 1..Len(chunks) |->
         [id |-> RecordId(doc.id, k),
          vector |-> vectors[k],
          text |-> texts[k],
          metadata |-> [source |-> doc.id, index |-> k]]]

\* upsert(records): a record whose id is stored already is overwritten.
Upsert(st, records) ==
  LET ids == {records[k].id : k \in 1..Len(records)} IN
    [id \in DOMAIN st \cup ids |->
       IF id \in ids
       THEN LET k == CHOOSE j \in 1..Len(records) :
                       /\ records[j].id = id
                       /\ \A i \in (j + 1)..Len(records) : records[i].id # id
            IN  records[k]
       ELSE st[id]]

Documents ==
  { [id |-> "d1", text |-> <<"a", " ", "a", "a">>],
    [id |-> "d1", text |-> <<"a", "a">>],
    [id |-> "d2", text |-> <<"a", "a", " ", "a">>] }

Configurations ==
  { [size |-> 2, overlap |-> 0, lookback |-> 1],
    [size |-> 3, overlap |-> 1, lookback |-> 1] }

\* ingest up to the upsert: chunk, encode, build the records.
IngestBuild ==
  /\ ingState = "idle"
  /\ ingests < MaxIngests
  /\ \E doc \in Documents, cfg \in Configurations :
       /\ ingDoc' = doc
       /\ ingCfg' = cfg
       /\ ingRecords' = BuildRecords(doc, cfg)
  /\ ingState' = "built"
  /\ ingests' = ingests + 1
  /\ UNCHANGED <<store, lastIngest>>
  /\ UNCHANGED <<frontVars, chunkerVars>>

\* The upsert is acknowledged: ingest returns its summary.
IngestUpsert ==
  /\ ingState = "built"
  /\ store' = Upsert(store, ingRecords)
  /\ lastIngest' = <<ingDoc, ingCfg>>
  /\ ingState' = "idle"
  /\ UNCHANGED <<ingDoc, ingCfg, ingRecords, ingests>>
  /\ UNCHANGED <<frontVars, chunkerVars>>

\* The upsert fails after the first n records were written
\* (PartialWriteError, n = 0: nothing written): ingest fails with
\* IngestionError.
IngestFails ==
  /\ ingState = "built"
  /\ \E n \in 0..(Len(ingRecords) - 1) :
       store' = Upsert(store, SubSeq(ingRecords, 1, n))
  /\ lastIngest' = NoIngest
  /\ ingState' = "idle"
  /\ UNCHANGED <<ingDoc, ingCfg, ingRecords, ingests>>
  /\ UNCHANGED <<frontVars, chunkerVars>>

NextIngest == IngestBuild \/ IngestUpsert \/ IngestFails

SpecIngest == Init /\ [][NextIngest]_vars

(***************************************************************************)
(* Properties of the front end.                                            *)
(***************************************************************************)
\* A step in which handleUpload's / handleSubmit's continuation runs.
UploadSettles == uploadNet.state = "settled" /\ uploadNet'.state = "idle"
AskSettles == askNet.state = "settled" /\ askNet'.state = "idle"

IsPrefix(a, b) == Len(a) <= Len(b) /\ SubSeq(b, 1, Len(a)) = a

\* C1: no file whose MIME type is other than application/pdf or text/plain
\* is ever selected or handed to uploadDocument, whatever the sequence of
\* selections, drops, removals and upload clicks; a selection of such a file
\* leaves uploadStatus 'error' with 'Please upload a PDF or TXT file' and
\* issues no request.
C1_OnlyPdfOrTxtUploaded ==
  [][ /\ (uploadSent' # uploadSent =>
            /\ uploadSent' = uploadSent + 1
            /\ uploadNet'.state = "pending")
      /\ (uploadNet'.state # "idle" =>
            uploadNet'.file.type \in {"application/pdf", "text/plain"})
      /\ (selectedFile' # NoFile =>
            selectedFile'.type \in {"application/pdf", "text/plain"})
      /\ (rejectedPick' =>
            /\ uploadStatus' = "error"
            /\ errorMessage' = "Please upload a PDF or TXT file"
            /\ uploadNet' = uploadNet
            /\ uploadSent' = uploadSent
            /\ selectedFile' = selectedFile) ]_vars

\* C1 witness: a file was rejected after an upload had been issued, with a
\* valid file still selected.
C1_Witness ==
  /\ rejectedPick
  /\ uploadSent >= 1
  /\ selectedFile # NoFile
  /\ uploadStatus = "error"

\* C2: when handleSubmit's continuation runs, exactly one assistant message
\* is appended: the reply's answer with the reply's sources when the request
\* succeeded, the thrown error's message without sources when it failed.
C2_AnswerOrError ==
  [][ AskSettles =>
        IF askNet.http.kind = "ok"
        THEN messages' = Append(messages,
                           [type |-> "assistant",
                            content |-> askNet.http.data.answer,
                            sources |-> askNet.http.data.sources])
        ELSE /\ askNet.result.threw
             /\ messages' = Append(messages,
                              [type |-> "assistant",
                               content |-> askNet.result.message,
                               sources |-> Undefined])
             /\ askNet.result.message \notin {b.answer : b \in AskBodies} ]_vars

\* C2 witness: one question answered with sources, the next one failed.
C2_Witness ==
  /\ Len(messages) = 4
  /\ messages[2].content = "the answer"
  /\ messages[2].sources = Some(<<"chunk 1">>)
  /\ messages[4].content = "Failed to get answer"
  /\ messages[4].sources = Undefined

\* C3: a successful /ask reply whose source list is empty appends the answer
\* as an assistant message and no error message, and empties
\* App.currentSources, so the Sources panel is not rendered.
C3_EmptySourcesIsAnAnswer ==
  [][ (/\ AskSettles
       /\ askNet.http.kind = "ok"
       /\ askNet.http.data.sources = Some(<< >>)) =>
        /\ messages' = Append(messages,
                         [type |-> "assistant",
                          content |-> askNet.http.data.answer,
                          sources |-> Some(<< >>)])
        /\ currentSources' = << >>
        /\ ~SourcesPanelRendered' ]_vars

\* C3 witness: an answer with a source, then an answer with an empty source
\* list, after which the panel is gone.
C3_Witness ==
  /\ Len(messages) = 4
  /\ messages[2].sources = Some(<<"chunk 1">>)
  /\ messages[4].content = "the answer"
  /\ messages[4].sources = Some(<< >>)
  /\ currentSources = << >>
  /\ askNet.state = "idle"

\* C4: when handleUpload's continuation runs, the upload ends in exactly one
\* of two outcomes.  Success: uploadStatus 'success', no file selected, and
\* uploadedFiles longer by exactly response.filename.  Failure: uploadStatus
\* 'error' with the thrown error's message, uploadedFiles unchanged.
C4_UploadOutcome ==
  [][ UploadSettles =>
        IF uploadNet.http.kind = "ok"
        THEN /\ uploadStatus' = "success"
             /\ selectedFile' = NoFile
             /\ uploadedFiles' = Append(uploadedFiles, uploadNet.http.data.filename)
        ELSE /\ uploadStatus' = "error"
             /\ uploadNet.result.threw
             /\ errorMessage' = uploadNet.result.message
             /\ uploadedFiles' = uploadedFiles ]_vars

\* C4 witness: a second upload has succeeded after a first one.
C4_Witness ==
  /\ Len(uploadedFiles) = 2
  /\ uploadStatus = "success"
  /\ selectedFile = NoFile
  /\ uploadNet.state = "idle"

\* C5: a failed HTTP call never yields a value: uploadDocument / askQuestion
\* throw an Error whose message is the reply body's 'error' field when that is
\* present and non-empty, else 'Failed to upload document' / 'Failed to get
\* answer' for an axios error, and the 'An unexpected error occurred ...'
\* message for any other failure.  A 2xx reply yields its body.
C5_FailuresAlwaysThrow ==
  /\ uploadNet.state = "settled" =>
       LET h == uploadNet.http
           r == uploadNet.result
       IN  CASE h.kind = "ok" -> ~r.threw /\ r.value = h.data
             [] h.kind = "axios" ->
                  /\ r.threw
                  /\ r.message =
                       IF /\ h.response.hasResponse
                          /\ h.response.error # Undefined
                          /\ h.response.error # Some("")
                       THEN h.response.error[1]
                       ELSE "Failed to upload document"
             [] OTHER ->
                  /\ r.threw
                  /\ r.message = "An unexpected error occurred during upload"
  /\ askNet.state = "settled" =>
       LET h == askNet.http
           r == askNet.result
       IN  CASE h.kind = "ok" -> ~r.threw /\ r.value = h.data
             [] h.kind = "axios" ->
                  /\ r.threw
                  /\ r.message =
                       IF /\ h.response.hasResponse
                          /\ h.response.error # Undefined
                          /\ h.response.error # Some("")
                       THEN h.response.error[1]
                       ELSE "Failed to get answer"
             [] OTHER ->
                  /\ r.threw
                  /\ r.message = "An unexpected error occurred while asking question"

\* C5 witness: an error reply whose 'error' field is the empty string has been
\* turned into the default message.
C5_Witness ==
  /\ askNet.state = "settled"
  /\ askNet.http.kind = "axios"
  /\ askNet.http.response.hasResponse
  /\ askNet.http.response.error = Some("")
  /\ askNet.result.threw
  /\ askNet.result.message = "Failed to get answer"

\* C8: POST /ask is sent only by a submit whose input is non-blank after
\* trimming, once per such submit, with the text as typed; a submit with
\* empty or whitespace-only input sends nothing and appends nothing; a
\* failed request is not sent again by the continuation.
C8_AskOnlyForNonBlank ==
  [][ /\ (askSent' # askSent =>
            /\ askSent' = askSent + 1
            /\ lastSubmit' = "accepted"
            /\ Trim(inputValue) # << >>
            /\ askNet.state = "idle"
            /\ askNet' = [state |-> "pending", question |-> inputValue])
      /\ (askNet'.state = "pending" /\ askNet.state # "pending" =>
            askSent' = askSent + 1)
      /\ (Trim(inputValue) = << >> =>
            /\ askSent' = askSent
            /\ (askNet'.state = "pending" => askNet' = askNet))
      /\ (lastSubmit' = "ignored" =>
            messages' = messages /\ askNet' = askNet /\ askSent' = askSent)
      /\ (AskSettles => askSent' = askSent /\ askNet' = NetIdle)
      /\ askSent' = Cardinality({i \in 1..Len(messages') : messages'[i].type = "user"})
    ]_vars

\* C8 witness: after a failed request, a whitespace-only submit was ignored
\* and nothing was sent again.
C8_Witness ==
  /\ lastSubmit = "ignored"
  /\ inputValue = <<" ">>
  /\ ~isLoading
  /\ askSent = 1
  /\ Len(messages) = 2
  /\ messages[2].content = "Failed to get answer"

\* C9: the conversation only grows at its end and alternates user, assistant,
\* user, ...; with isLoading false it holds as many assistant as user
\* messages, with isLoading true its last message is the question awaiting
\* its reply.
Alternates(ms) ==
  \A i \in 1..Len(ms) : ms[i].type = IF i % 2 = 1 THEN "user" ELSE "assistant"

C9_HistoryAlternates ==
  [][ /\ IsPrefix(messages, messages')
      /\ Len(messages') <= Len(messages) + 1
      /\ Alternates(messages')
      /\ (~isLoading' => Len(messages') % 2 = 0)
      /\ (isLoading' =>
            /\ Len(messages') % 2 = 1
            /\ messages'[Len(messages')].type = "user"
            /\ messages'[Len(messages')].content = askNet'.question) ]_vars

\* C9 witness: two full exchanges, the first reply an error.
C9_Witness ==
  /\ Len(messages) = 4
  /\ ~isLoading
  /\ messages[1].content = <<" ", "q">>
  /\ messages[2].content = "An unexpected error occurred while asking question"
  /\ messages[4].sources = Some(<< >>)

\* C10: isLoading is true exactly while a POST /ask is outstanding and
\* uploading exactly while a POST /upload is; both are cleared when the
\* request settles, on success and on failure, after which a non-blank
\* question is accepted and the drop zone takes files again.
C10_LoadingTracksRequest ==
  /\ isLoading <=> askNet.state # "idle"
  /\ uploading <=> uploadNet.state # "idle"
  /\ (askNet.state = "idle" /\ ~BlankInput(inputValue)) => ~SubmitIgnored
  /\ uploadNet.state = "idle" => DropZoneEnabled

\* C10 witness: an upload and a question have both failed and both flags are
\* clear again.
C10_Witness ==
  /\ uploadSent = 1
  /\ askSent = 1
  /\ uploadStatus = "error"
  /\ errorMessage = "Failed to upload document"
  /\ Len(messages) = 2
  /\ messages[2].content = "Failed to get answer"
  /\ ~isLoading
  /\ ~uploading

\* The replies of the back end's answers, as opposed to error texts.
Answers == { b.answer : b \in AskBodies }

\* The positions of the assistant messages of the conversation.
AssistantPositions == { i \in 1..Len(messages) : messages[i].type = "assistant" }

\* The most recent assistant message; only used where there is one.
LastAssistant ==
  messages[CHOOSE i \in AssistantPositions : \A j \in AssistantPositions : j <= i]

\* C11, as the specification states it: the sources held in currentSources
\* and shown by the Sources panel are those attached to the most recent
\* assistant message; when that message is an error message or carries an
\* empty source list, currentSources is empty and no source is shown.
C11_SourcesOfLatestReply ==
  AssistantPositions # {} =>
    /\ (LastAssistant.content \in Answers /\ TruthyArr(LastAssistant.sources)) =>
          /\ currentSources = LastAssistant.sources[1]
          /\ SourcesShown = LastAssistant.sources[1]
    /\ (LastAssistant.content \notin Answers) =>
          /\ currentSources = << >>
          /\ SourcesShown = << >>

\* C12: at most one POST /ask is in flight.  A request is sent only when
\* none is outstanding and isLoading is false; while isLoading is true no
\* request is sent, a submit leaves the conversation and the request in
\* flight alone, and the only message appended is the reply to the question
\* in flight, placed right after that question, so replies follow the order
\* of the questions.
C12_OneAskInFlight ==
  [][ /\ askSent' # askSent =>
            /\ askNet.state = "idle"
            /\ ~isLoading
            /\ askSent' = askSent + 1
      /\ isLoading =>
            /\ askSent' = askSent
            /\ lastSubmit' = "ignored" => (messages' = messages /\ askNet' = askNet)
            /\ messages' # messages => AskSettles
      /\ AskSettles =>
            /\ Len(messages') = Len(messages) + 1
            /\ IsPrefix(messages, messages')
            /\ messages[Len(messages)].type = "user"
            /\ messages[Len(messages)].content = askNet.question
            /\ messages'[Len(messages')].type = "assistant" ]_vars

\* C12 witness: a submit has just been ignored while the reply to a question
\* was awaited.
C12_Witness ==
  /\ lastSubmit = "ignored"
  /\ isLoading
  /\ askNet.state = "pending"
  /\ askNet.question = <<" ", "q">>
  /\ askSent = 1
  /\ Len(messages) = 1

\* C13: an upload request is issued only from a state with a file selected,
\* uploadStatus "idle" and no upload in flight.  Hence with uploadStatus
\* "error", after a failed upload or a rejected selection, no request is
\* issued even when a valid file is still selected, and uploadStatus returns
\* to "idle" only by handleFileSelect accepting a file of a valid type.
C13_UploadOnlyWhenIdle ==
  [][ /\ uploadSent' # uploadSent =>
            /\ selectedFile # NoFile
            /\ selectedFile.type \in validTypes
            /\ uploadStatus = "idle"
            /\ ~uploading
            /\ uploadNet.state = "idle"
            /\ uploadNet'.file = selectedFile
      /\ uploadStatus = "error" =>
            /\ uploadSent' = uploadSent
            /\ uploadNet' = uploadNet
            /\ uploadStatus' \in {"error", "idle"}
            /\ uploadStatus' = "idle" =>
                  /\ selectedFile' # NoFile
                  /\ selectedFile'.type \in validTypes
                  /\ errorMessage' = ""
                  /\ ~rejectedPick' ]_vars

\* C13 witness: an upload of a.pdf has failed, a wrong-type file has then been
\* rejected, and a.pdf is still selected with no way to upload it.
C13_Witness ==
  /\ uploadSent = 1
  /\ uploadedFiles = << >>
  /\ uploadStatus = "error"
  /\ rejectedPick
  /\ selectedFile.name = "a.pdf"
  /\ uploadNet.state = "idle"
  /\ ~UploadButtonEnabled

(***************************************************************************)
(* Properties of the chunker.                                              *)
(***************************************************************************)
\* Every character of the text lies in some chunk.
Covers(text, chunks) ==
  \A i \in 1..Len(text) :
    \E k \in 1..Len(chunks) : chunks[k].start < i /\ i <= chunks[k].end

\* The chunks' offset ranges are monotonically non-decreasing.
MonotoneRanges(chunks) ==
  \A k \in 1..(Len(chunks) - 1) :
    /\ chunks[k].start <= chunks[k + 1].start
    /\ chunks[k].end <= chunks[k + 1].end

\* Every chunk is a non-empty range of the text of at most `size` characters.
BoundedChunks(text, chunks, size) ==
  \A k \in 1..Len(chunks) :
    /\ 0 <= chunks[k].start
    /\ chunks[k].start < chunks[k].end
    /\ chunks[k].end <= Len(text)
    /\ chunks[k].end - chunks[k].start <= size

\* An invalid configuration fails with InvalidConfiguration and a valid one
\* never does.
InvalidConfigurationFails ==
  /\ chState = "invalid" => ~ValidConfiguration(chSize, chOverlap) /\ chChunks = << >>
  /\ chState \in {"running", "done"} => ValidConfiguration(chSize, chOverlap)

=============================================================================
